---- MODULE Spec2Model ----
(***************************************************************************)
(* Model of the dynamic workflow graph of story_app's composer engine:     *)
(*   src/backend_configured/src/composer/graph.py   (DynamicGraph)         *)
(*   src/backend_configured/src/composer/state.py   (ComposerState)        *)
(*   src/backend_configured/src/composer/config_loader.py (ConfigLoader)   *)
(*   src/backend_configured/src/agents/agent_nodes.py (the step functions) *)
(*                                                                         *)
(* A use case is an ordered list of agent declarations.  DynamicGraph      *)
(* compiles the enabled, resolvable ones into a LangGraph StateGraph and   *)
(* run() drives it: one node per superstep, the node's returned state is   *)
(* written back to the channels (errors/warnings/agent_results through     *)
(* operator.add, every other key by overwrite), then the node's linear     *)
(* edge or its conditional route function selects the next node.           *)
(*                                                                         *)
(* Quality scores are modelled as integers on the 0-10 scale; the Python   *)
(* value None is the sentinel None below.                                  *)
(***************************************************************************)
EXTENDS Integers, Sequences, FiniteSets, TLC

(***************************************************************************)
(* Bounds of the model.                                                    *)
(***************************************************************************)
\* longest declared agent list that is enumerated
MaxAgents == 3
\* the caller-supplied max_revisions values are 0..MaxRevisionsArg
MaxRevisionsArg == 1
\* the revision_count values a caller passes as a keyword argument are
\* 1..MaxRevisionCountKwarg
MaxRevisionCountKwarg == 1
\* the number of requests that run concurrently
MaxConcurrentRuns == 2
\* the seconds the clock of the concurrent requests goes through are
\* 0..MaxClock
MaxClock == 1
\* the number of stories requested from the background story API
MaxStories == 2

(***************************************************************************)
(* Program constants.                                                      *)
(***************************************************************************)
\* state.py:146  quality_score=None
None == -1
\* state.py:98   max_revisions: int = 3
DefaultMaxRevisions == 3
\* graph.py:255  quality_score < 7
QualityThreshold == 7
\* graph.py:305  self.workflow.invoke(initial_state) passes no config, so
\* LangGraph's default recursion_limit applies
RecursionLimit == 25

\* langgraph.graph.END, imported at graph.py:13
END == "__end__"

(***************************************************************************)
(* The step registry: agent_function_map of _get_agent_function.           *)
(* A step function is characterised by what it writes to the state:        *)
(* current_agent, the workflow_step of its success path, and the prefix    *)
(* of the error string of its except path.                                 *)
(***************************************************************************)
RegisteredNames ==
    {"planner", "writer", "formatter", "content_generator", "story_formatter",
     "poetry_formatter", "critique", "poetry_agent", "poetry_writer",
     "music_agent", "image_generator"}

AgentFunction(agent_name) ==
    CASE agent_name = "planner" ->
           [agent |-> "planner", done |-> "planning_complete", err |-> "Planning error"]
      [] agent_name = "writer" ->
           [agent |-> "writer", done |-> "writing_complete", err |-> "Writing error"]
      [] agent_name \in {"formatter", "story_formatter", "poetry_formatter"} ->
           [agent |-> "formatter", done |-> "formatting_complete",
            err |-> "Content formatting error"]
      [] agent_name = "content_generator" ->
           [agent |-> "content_generator", done |-> "content_generation_complete",
            err |-> "Content generation error"]
      [] agent_name = "critique" ->
           [agent |-> "critique", done |-> "critique_complete", err |-> "Critique error"]
      [] agent_name \in {"poetry_agent", "poetry_writer"} ->
           [agent |-> "poetry_agent", done |-> "poetry_complete", err |-> "Poetry error"]
      [] agent_name = "music_agent" ->
           [agent |-> "music_agent", done |-> "completed", err |-> "Music error"]
      [] agent_name = "image_generator" ->
           [agent |-> "image_generator", done |-> "completed",
            err |-> "Image generation error"]

\* _get_agent_function returns None for a name outside the map
Resolvable(agent_name) == agent_name \in RegisteredNames

(***************************************************************************)
(* The use-case configurations that are enumerated.                        *)
(***************************************************************************)
\* names that appear in the enumerated configurations; "ghost" is a name
\* with no entry in agent_function_map
ConfigNames == {"planner", "ghost", "writer", "critique", "image_generator"}

\* the enumerated agent lists declare their names in this relative order
Rank(agent_name) ==
    CASE agent_name = "planner" -> 1
      [] agent_name = "ghost" -> 2
      [] agent_name = "writer" -> 3
      [] agent_name = "critique" -> 4
      [] agent_name = "image_generator" -> 5

\* a routing map is a function from outcome labels to node names or END
NoMap == [l \in {} |-> END]
ReviseMap == [l \in {"revise", "end"} |->
                 IF l = "revise" THEN "writer" ELSE END]
ReviseThenImageMap == [l \in {"revise", "end"} |->
                 IF l = "revise" THEN "writer" ELSE "image_generator"]
\* a map with a "default" label for a step that is not the critique, and no
\* "revise" label
DefaultMap == [l \in {"default", "end"} |->
                 IF l = "default" THEN "image_generator" ELSE END]
RoutingMaps == {ReviseMap, ReviseThenImageMap, DefaultMap}

AgentDecls ==
    {[name |-> n, enabled |-> e, edge_type |-> "linear", routing_map |-> NoMap] :
        n \in ConfigNames, e \in BOOLEAN}
    \cup
    {[name |-> n, enabled |-> e, edge_type |-> "conditional", routing_map |-> m] :
        n \in ConfigNames \ {"ghost"}, e \in BOOLEAN, m \in RoutingMaps}

\* an agent whose "end" label names the agent itself; such a map makes a
\* cycle that an error does not leave, and the enumeration leaves it out
EndsAtItself(agent_config) ==
    /\ "end" \in DOMAIN agent_config.routing_map
    /\ agent_config.routing_map["end"] = agent_config.name

\* the declarations that may follow the agent list a: those of a name later
\* in the order than a's last
MayFollow(a) ==
    {d \in AgentDecls :
        /\ ~EndsAtItself(d)
        /\ a # <<>> => Rank(a[Len(a)].name) < Rank(d.name)}

\* the agent lists of length n or less
RECURSIVE AgentLists(_)
AgentLists(n) ==
    IF n = 0 THEN {<<>>}
    ELSE LET shorter == AgentLists(n - 1)
         IN  shorter \cup
             UNION {{Append(a, d) : d \in MayFollow(a)} :
                        a \in {x \in shorter : Len(x) = n - 1}}

UseCaseAgents == AgentLists(MaxAgents)

(***************************************************************************)
(* ConfigLoader.                                                           *)
(***************************************************************************)
\* validate_use_case_config: the agent list must be non-empty (every
\* enumerated declaration carries a name; the display fields of the use
\* case are outside the model)
validate_use_case_config(agent_list) == Len(agent_list) > 0

\* mutant: the enabled flag is not read
IsEnabled_Always(agent_config) == TRUE

IsEnabled(agent_config) == agent_config.enabled

\* get_enabled_agents: [agent for agent in agents if agent.get("enabled", False)]
get_enabled_agents(agent_list) == SelectSeq(agent_list, IsEnabled)

(***************************************************************************)
(* DynamicGraph._build_workflow and _add_edges.                            *)
(***************************************************************************)
\* the loop of _build_workflow: a node is added for every enabled agent whose
\* function is found, in declared order
\* mutant: a node is added for every enabled agent, found or not
agent_nodes_added_NoLookup(enabled) == [i \in 1..Len(enabled) |-> enabled[i].name]

RECURSIVE agent_nodes_added(_)
agent_nodes_added(enabled) ==
    IF enabled = <<>> THEN <<>>
    ELSE IF Resolvable(Head(enabled).name)
         THEN <<Head(enabled).name>> \o agent_nodes_added(Tail(enabled))
         ELSE agent_nodes_added(Tail(enabled))

SeqRange(s) == {s[i] : i \in 1..Len(s)}

\* mutant: the bound of the "is there a next agent" test is off by one
LinearTarget_OffByOne(enabled, agent_nodes, i) ==
    IF i + 1 < Len(enabled)
    THEN IF enabled[i + 1].name \in agent_nodes
         THEN enabled[i + 1].name
         ELSE END
    ELSE END

\* the else branch of _add_edges: the successor of the linear agent at
\* position i of enabled_agents
LinearTarget(enabled, agent_nodes, i) ==
    IF i + 1 <= Len(enabled)
    THEN IF enabled[i + 1].name \in agent_nodes
         THEN enabled[i + 1].name
         ELSE END
    ELSE END

\* positions of enabled_agents that _add_edges does not skip
EdgePositions(enabled, agent_nodes) ==
    {i \in 1..Len(enabled) : enabled[i].name \in agent_nodes}

PositionOf(enabled, agent_name) ==
    CHOOSE i \in 1..Len(enabled) : enabled[i].name = agent_name

\* graph.add_edge(agent_name, ...) for every linear node
LinearEdges(enabled, agent_nodes) ==
    [n \in {enabled[i].name : i \in {j \in EdgePositions(enabled, agent_nodes) :
                                        enabled[j].edge_type # "conditional"}} |->
        LinearTarget(enabled, agent_nodes, PositionOf(enabled, n))]

\* graph.add_conditional_edges(agent_name, route_function, routing_map):
\* the path map LangGraph looks the returned label up in
ConditionalEdges(enabled, agent_nodes) ==
    [n \in {enabled[i].name : i \in {j \in EdgePositions(enabled, agent_nodes) :
                                        enabled[j].edge_type = "conditional"}} |->
        enabled[PositionOf(enabled, n)].routing_map]

\* route_function closes over the loop variable routing_map of _add_edges;
\* Python binds it late, so at run time every route_function reads the value
\* the variable had when the loop ended: the routing map of the last
\* conditional agent
ClosureRoutingMap(enabled, agent_nodes) ==
    LET cond == {j \in EdgePositions(enabled, agent_nodes) :
                    enabled[j].edge_type = "conditional"}
    IN  IF cond = {} THEN NoMap
        ELSE enabled[CHOOSE j \in cond : \A k \in cond : k <= j].routing_map

\* mutant: graph.compile() accepts every path map
BranchTargetsKnown_Unchecked(enabled, agent_nodes) == TRUE

\* graph.compile() validates the graph: every target of a path map must be a
\* node of the graph or END
BranchTargetsKnown(enabled, agent_nodes) ==
    LET branches == ConditionalEdges(enabled, agent_nodes)
    IN  \A n \in DOMAIN branches : \A l \in DOMAIN branches[n] :
            branches[n][l] \in agent_nodes \cup {END}

NoWorkflow ==
    [nodes |-> <<>>, entry |-> END, edges |-> NoMap, branches |-> NoMap,
     routing_map |-> NoMap]

\* mutant: the entry point is the first enabled agent, resolvable or not
_build_workflow_EntryFirstEnabled(enabled) ==
    LET added == agent_nodes_added(enabled)
        agent_nodes == SeqRange(added)
    IN  [nodes |-> added,
         entry |-> enabled[1].name,
         edges |-> LinearEdges(enabled, agent_nodes),
         branches |-> ConditionalEdges(enabled, agent_nodes),
         routing_map |-> ClosureRoutingMap(enabled, agent_nodes)]

\* _build_workflow: nodes in the order they were added, the entry point
\* agent_nodes_added[0], then _add_edges
_build_workflow(enabled) ==
    LET added == agent_nodes_added(enabled)
        agent_nodes == SeqRange(added)
    IN  [nodes |-> added,
         entry |-> added[1],
         edges |-> LinearEdges(enabled, agent_nodes),
         branches |-> ConditionalEdges(enabled, agent_nodes),
         routing_map |-> ClosureRoutingMap(enabled, agent_nodes)]

\* DynamicGraph.__init__ raises ValueError when validation fails, when no
\* node was added, or when graph.compile() rejects the graph
ConstructionFails(agent_list) ==
    LET enabled == get_enabled_agents(agent_list)
        added == agent_nodes_added(enabled)
    IN  \/ ~validate_use_case_config(agent_list)
        \/ added = <<>>
        \/ ~BranchTargetsKnown(enabled, SeqRange(added))

(***************************************************************************)
(* ComposerState: the fields the engine and the routing read or write.     *)
(***************************************************************************)
\* the keyword arguments run forwards to create_initial_state beyond the
\* named parameters: none, or a revision_count
NoKwargs == [key \in {} |-> 0]
RunKwargs ==
    {NoKwargs} \cup {[key \in {"revision_count"} |-> n] : n \in 1..MaxRevisionCountKwarg}

\* create_initial_state: the ComposerState literal of lines 117-199, then
\* the loop of lines 201-206 stores every remaining keyword argument under
\* its own name, over the literal's value when the state has that key
create_initial_state(max_revisions, kwargs) ==
    LET literal == [workflow_step |-> "initialization",
                    current_agent |-> "",
                    completed_steps |-> <<>>,
                    quality_score |-> None,
                    revision_count |-> 0,
                    max_revisions |-> max_revisions,
                    errors |-> <<>>]
    IN  [key \in DOMAIN literal |->
            IF key \in DOMAIN kwargs THEN kwargs[key] ELSE literal[key]]

\* should_continue_workflow
should_continue_workflow(st) ==
    IF st.errors # <<>> THEN FALSE
    ELSE IF st.workflow_step = "completed" THEN FALSE
    ELSE IF st.revision_count >= st.max_revisions THEN FALSE
    ELSE TRUE

\* Python truth value of quality_score: None and 0 are false
Truthy(quality_score) == quality_score # None /\ quality_score # 0

\* mutant: a missing score counts as 0, `(quality_score or 0) < 7`
NeedsRevision_MissingScoreIsLow(st) ==
    /\ (IF Truthy(st.quality_score) THEN st.quality_score ELSE 0) < QualityThreshold
    /\ st.revision_count < st.max_revisions

\* mutant: the threshold itself counts as below
NeedsRevision_ThresholdInclusive(st) ==
    /\ Truthy(st.quality_score)
    /\ st.quality_score <= QualityThreshold
    /\ st.revision_count < st.max_revisions

\* the test of line 255
NeedsRevision(st) ==
    /\ Truthy(st.quality_score)
    /\ st.quality_score < QualityThreshold
    /\ st.revision_count < st.max_revisions

\* mutant: the quality gate is applied whatever current_agent is
_route_conditional_agent_GateForAll(st, routing_map) ==
    IF ~should_continue_workflow(st) THEN "end"
    ELSE IF NeedsRevision(st) THEN "revise"
    ELSE IF st.current_agent = "critique" THEN "end"
    ELSE IF "default" \in DOMAIN routing_map
         THEN routing_map["default"]
         ELSE "end"

\* mutant: the route function never consults the revision bound
_route_conditional_agent_NoBound(st, routing_map) ==
    IF st.errors # <<>> \/ st.workflow_step = "completed" THEN "end"
    ELSE IF st.current_agent = "critique"
         THEN IF Truthy(st.quality_score) /\ st.quality_score < QualityThreshold
              THEN "revise"
              ELSE "end"
         ELSE IF "default" \in DOMAIN routing_map
              THEN routing_map["default"]
              ELSE "end"

\* _route_conditional_agent: the label handed to LangGraph
_route_conditional_agent(st, routing_map) ==
    IF ~should_continue_workflow(st) THEN "end"
    ELSE IF st.current_agent = "critique"
         THEN IF NeedsRevision(st) THEN "revise" ELSE "end"
         ELSE IF "default" \in DOMAIN routing_map
              THEN routing_map["default"]
              ELSE "end"

(***************************************************************************)
(* The step functions and wrapped_agent.                                   *)
(***************************************************************************)
\* the values a critique may score (critique_data.get("score", 7.5); the
\* score comes from the model's JSON and may be null)
ScoreValues == {None, 0, 5, 7, 8}

\* what a step function can do: return through its success path, return
\* through its except path (the error is appended to state["errors"]), or
\* let an exception escape (wrapped_agent catches only the ValueError of
\* get_agent_prompt, and the step functions catch Exception only);
\* music_agent_node and image_generator_node save the run output after
\* their success path and append an error when the save fails
Outcomes == {"ok", "error", "save_error", "raise"}

SavingAgents == {"music_agent", "image_generator"}

OutcomesOf(agent_name) ==
    IF agent_name \in SavingAgents THEN Outcomes ELSE Outcomes \ {"save_error"}

\* the state a step function returns
NodeResult(st, agent_name, outcome, score) ==
    LET f == AgentFunction(agent_name)
    IN  IF outcome = "error"
        THEN [st EXCEPT !.errors = st.errors \o <<f.err>>,
                        !.current_agent = f.agent,
                        !.workflow_step = "error"]
        ELSE [st EXCEPT !.quality_score =
                            IF agent_name = "critique" THEN score ELSE @,
                        !.current_agent = f.agent,
                        !.workflow_step = f.done,
                        !.errors = IF outcome = "save_error"
                                   THEN @ \o <<"Output saving error">>
                                   ELSE @]

\* wrapped_agent: lines 176-178 add the agent to completed_steps when it is
\* not there yet
wrapped_agent(st, agent_name, outcome, score) ==
    LET result_state == NodeResult(st, agent_name, outcome, score)
    IN  IF agent_name \in SeqRange(result_state.completed_steps)
        THEN result_state
        ELSE [result_state EXCEPT
                 !.completed_steps = result_state.completed_steps \o <<agent_name>>]

\* LangGraph writes the returned dict to the channels: errors is declared
\* Annotated[List[str], operator.add] (state.py:83), so the channel becomes
\* old + returned; the other modelled keys are overwritten
ApplyWrites(old, returned) ==
    [returned EXCEPT !.errors = old.errors \o returned.errors]

(***************************************************************************)
(* The state of the model.                                                 *)
(***************************************************************************)
VARIABLES
    agents,      \* use_case_config["agents"], the declared agent list
    pc,          \* "configured", "compiled", "config_error", "running",
                 \* "returned" (run returned the final state) or "raised"
                 \* (run re-raised an exception)
    workflow,    \* the compiled graph: nodes, entry point, edges, path maps
    state,       \* the ComposerState of the run
    cursor,      \* the node the next superstep executes
    supersteps,  \* supersteps done in this run
    exception,   \* the exception run re-raised, "" when none
    invoked,     \* history: the agents executed and how each ended, in order
    route_log,   \* history: one record per evaluation of a route_function
    runs,        \* concurrent requests: the run of each, see ConcurrentRun
    clock,       \* concurrent requests: int(time.time()), in seconds
    checkpointer, \* concurrent requests: the threads of the module-level
                 \* InMemorySaver of agent_nodes.py
    story_status_storage, \* api.py: the module-level dict, story id -> entry
    last_response \* api.py: history, the last answer of GET /stories/{id}

\* the variables of one DynamicGraph and its run
engine_vars == <<agents, pc, workflow, state, cursor, supersteps, exception,
                 invoked, route_log>>

\* the variables of the concurrent requests
concurrent_vars == <<runs, clock, checkpointer>>

\* what the construction and the run of one DynamicGraph leave alone
\* the variables of the background story API of api.py
api_vars == <<story_status_storage, last_response>>

outside_engine == <<concurrent_vars, api_vars>>

vars == <<engine_vars, concurrent_vars, api_vars>>

\* no story was requested and no GET was answered
NoStories == [story_id \in {} |-> 0]
NoResponse == [story_id |-> 0, status_code |-> 0, story |-> "", success |-> FALSE]

\* before run is called there is no ComposerState; the variable then holds
\* the record create_initial_state makes by default
NoState == create_initial_state(DefaultMaxRevisions, NoKwargs)

\* run(..., **kwargs): max_revisions is the caller's, or the default of
\* create_initial_state
MaxRevisionsArgs == (0..MaxRevisionsArg) \cup {DefaultMaxRevisions}

Init ==
    /\ agents \in UseCaseAgents
    /\ pc = "configured"
    /\ workflow = NoWorkflow
    /\ state = NoState
    /\ cursor = END
    /\ supersteps = 0
    /\ exception = ""
    /\ invoked = <<>>
    /\ route_log = <<>>
    /\ runs = <<>>
    /\ clock = 0
    /\ checkpointer = {}
    /\ story_status_storage = NoStories
    /\ last_response = NoResponse

\* DynamicGraph.__init__
Construct ==
    /\ pc = "configured"
    /\ IF ConstructionFails(agents)
       THEN /\ pc' = "config_error"
            /\ workflow' = NoWorkflow
       ELSE /\ pc' = "compiled"
            /\ workflow' = _build_workflow(get_enabled_agents(agents))
    /\ UNCHANGED <<agents, state, cursor, supersteps, exception, invoked, route_log>>
    /\ UNCHANGED outside_engine

\* DynamicGraph.run up to the first superstep of workflow.invoke
StartRun(max_revisions, kwargs) ==
    /\ pc = "compiled"
    /\ pc' = "running"
    /\ state' = create_initial_state(max_revisions, kwargs)
    /\ cursor' = workflow.entry
    /\ UNCHANGED <<agents, workflow, supersteps, exception, invoked, route_log>>
    /\ UNCHANGED outside_engine

\* the record route_log keeps of one evaluation of a route_function: the
\* state it read, the label it returned and the node the label resolved to
RouteRecord(agent_name, st, label, target) ==
    [agent |-> agent_name, label |-> label, target |-> target,
     current_agent |-> st.current_agent,
     quality_score |-> st.quality_score,
     revision_count |-> st.revision_count,
     max_revisions |-> st.max_revisions,
     errors |-> Len(st.errors),
     workflow_step |-> st.workflow_step]

\* the target LangGraph resolves a label to; a label missing from the path
\* map is a KeyError
Unroutable == "__key_error__"
ResolveTarget(path_map, label) ==
    IF label \in DOMAIN path_map THEN path_map[label] ELSE Unroutable

\* the successor of agent_name once its result is in the channels: the
\* target of its linear edge, or what its route_function's label resolves to
Successor(wf, agent_name, written) ==
    IF agent_name \in DOMAIN wf.branches
    THEN ResolveTarget(wf.branches[agent_name],
                       _route_conditional_agent(written, wf.routing_map))
    ELSE wf.edges[agent_name]

\* one superstep of workflow.invoke: the node at the cursor runs, its result
\* is written to the channels, and its edge selects the next node; an
\* exception leaves invoke and run re-raises it (lines 309-311)
ExecuteStep(outcome, score) ==
    /\ pc = "running"
    /\ supersteps < RecursionLimit
    /\ outcome \in OutcomesOf(cursor)
    /\ invoked' = Append(invoked, [agent |-> cursor, outcome |-> outcome])
    /\ supersteps' = supersteps + 1
    /\ IF outcome = "raise"
       THEN /\ pc' = "raised"
            /\ exception' = "StepError"
            /\ UNCHANGED <<state, cursor, route_log>>
       ELSE LET written == ApplyWrites(state, wrapped_agent(state, cursor, outcome, score))
                target == Successor(workflow, cursor, written)
            IN  /\ route_log' =
                      IF cursor \in DOMAIN workflow.branches
                      THEN Append(route_log,
                                  RouteRecord(cursor, written,
                                      _route_conditional_agent(written, workflow.routing_map),
                                      target))
                      ELSE route_log
                /\ IF target = Unroutable
                   THEN /\ pc' = "raised"
                        /\ exception' = "KeyError"
                        /\ UNCHANGED <<state, cursor>>
                   ELSE /\ state' = written
                        /\ cursor' = target
                        /\ pc' = IF target = END THEN "returned" ELSE "running"
                        /\ UNCHANGED exception
    /\ UNCHANGED <<agents, workflow>>
    /\ UNCHANGED outside_engine

\* workflow.invoke raises GraphRecursionError when the recursion limit is
\* reached with a node still to run; run re-raises it (lines 309-311)
RecursionLimitReached ==
    /\ pc = "running"
    /\ supersteps >= RecursionLimit
    /\ pc' = "raised"
    /\ exception' = "GraphRecursionError"
    /\ UNCHANGED <<agents, workflow, state, cursor, supersteps, invoked, route_log>>
    /\ UNCHANGED outside_engine

Next ==
    \/ Construct
    \/ \E max_revisions \in MaxRevisionsArgs, kwargs \in RunKwargs :
           StartRun(max_revisions, kwargs)
    \/ \E outcome \in Outcomes, score \in ScoreValues : ExecuteStep(outcome, score)
    \/ RecursionLimitReached

Spec == Init /\ [][Next]_vars

(***************************************************************************)
(* Vocabulary of the properties.                                           *)
(***************************************************************************)
InRun == pc \in {"running", "returned", "raised"}

InvokedAgents == [i \in 1..Len(invoked) |-> invoked[i].agent]

\* no executed step recorded an error or raised
NoErrorRecorded == \A i \in 1..Len(invoked) : invoked[i].outcome = "ok"

\* evaluations of the quality gate: route_function calls that found
\* current_agent = "critique"
GateEvaluations == {i \in 1..Len(route_log) : route_log[i].current_agent = "critique"}

ReviseRoutes == {i \in 1..Len(route_log) : route_log[i].label = "revise"}

DisabledNames == {agents[i].name : i \in {j \in 1..Len(agents) : ~agents[j].enabled}}

(***************************************************************************)
(* The scenario configurations of the properties.                          *)
(***************************************************************************)
LinearDecl(agent_name) ==
    [name |-> agent_name, enabled |-> TRUE, edge_type |-> "linear",
     routing_map |-> NoMap]

\* [planner linear, writer linear, critique conditional {revise: writer,
\* end: terminal}]
ReviseScenario ==
    <<LinearDecl("planner"), LinearDecl("writer"),
      [name |-> "critique", enabled |-> TRUE, edge_type |-> "conditional",
       routing_map |-> ReviseMap]>>

\* a critique that succeeded with a numeric score below the threshold at
\* every evaluation of a route_function so far
ScoredBelowThresholdAlways ==
    \A i \in 1..Len(route_log) :
        /\ route_log[i].agent = "critique"
        /\ route_log[i].workflow_step = "critique_complete"
        /\ route_log[i].quality_score # None
        /\ route_log[i].quality_score < QualityThreshold

\* C1: when the critique step scores below 7.0 at every evaluation, the gate
\* is evaluated at most max_revisions + 1 times in the run and routes to
\* revise at most max_revisions times (then it routes to end)
C1_RevisionBound ==
    (InRun /\ ScoredBelowThresholdAlways) =>
        /\ Len(route_log) <= state.max_revisions + 1
        /\ Cardinality(ReviseRoutes) <= state.max_revisions

\* C2: once the error list of the state is non-empty no further step is
\* invoked, also when the failing step has a linear edge to a successor
C2_HaltOnError ==
    [][(InRun /\ state.errors # <<>>) => invoked' = invoked]_vars

\* C3: a step implementation that raises never makes run raise: the run
\* returns a state whose error list is non-empty, whose workflow_step is
\* "error" and whose current_agent is the failing step's
C3_StepFailureRecorded ==
    (invoked # <<>> /\ invoked[Len(invoked)].outcome = "raise") =>
        /\ pc = "returned"
        /\ state.errors # <<>>
        /\ state.workflow_step = "error"
        /\ state.current_agent = AgentFunction(invoked[Len(invoked)].agent).agent

\* the state of a gate evaluation that the revise rule covers: a numeric
\* score from 0 up to but excluding the threshold, a revision count below
\* the bound and no error
ReviseCase(r) ==
    /\ r.current_agent = "critique"
    /\ r.quality_score # None
    /\ r.quality_score >= 0
    /\ r.quality_score < QualityThreshold
    /\ r.revision_count < r.max_revisions
    /\ r.errors = 0

\* C4: at the quality gate every score in [0, 7) with revision_count below
\* max_revisions and no error routes to the target of the "revise" label
C4_BelowThresholdRevises ==
    \A i \in 1..Len(route_log) :
        ReviseCase(route_log[i]) =>
            /\ route_log[i].label = "revise"
            /\ route_log[i].target =
                   ResolveTarget(workflow.branches[route_log[i].agent], "revise")

\* C5: a quality score exactly equal to 7 at the quality gate routes to end,
\* never to revise, whatever revision_count and max_revisions are
C5_ThresholdRoutesToEnd ==
    \A i \in 1..Len(route_log) :
        (/\ route_log[i].current_agent = "critique"
         /\ route_log[i].quality_score = QualityThreshold) =>
            /\ route_log[i].label = "end"
            /\ route_log[i].target =
                   ResolveTarget(workflow.branches[route_log[i].agent], "end")

\* the gate read a score of exactly 7 with revisions left and no error, and
\* routed to end
C5_Witness ==
    \E i \in 1..Len(route_log) :
        /\ route_log[i].current_agent = "critique"
        /\ route_log[i].quality_score = QualityThreshold
        /\ route_log[i].revision_count < route_log[i].max_revisions
        /\ route_log[i].errors = 0
        /\ route_log[i].label = "end"

\* C6: revision_count equals the number of routed revise transitions of
\* the run
C6_RevisionCountCountsRevises ==
    InRun => state.revision_count = Cardinality(ReviseRoutes)

\* the scores the critique gave at the gate evaluations, in order
GateScores == [i \in 1..Len(route_log) |-> route_log[i].quality_score]

\* C7: in the revise scenario with max_revisions = 1 and scores 5 then 8 the
\* run executes planner, writer, critique, writer, critique, terminates,
\* and revision_count is 1 at the second gate evaluation
C7_ReviseScenario ==
    (/\ agents = ReviseScenario
     /\ InRun
     /\ state.max_revisions = 1
     /\ NoErrorRecorded
     /\ GateScores = <<5, 8>>) =>
        /\ pc = "returned"
        /\ InvokedAgents = <<"planner", "writer", "critique", "writer", "critique">>
        /\ route_log[2].target = END
        /\ route_log[2].revision_count = 1

\* three enabled linear steps whose names resolve in the registry
ThreeLinearSteps ==
    /\ Len(agents) = 3
    /\ \A i \in 1..3 : /\ agents[i].enabled
                       /\ agents[i].edge_type = "linear"
                       /\ Resolvable(agents[i].name)

DeclaredOrder == [i \in 1..Len(agents) |-> agents[i].name]

FunctionRange(f) == {f[x] : x \in DOMAIN f}

\* C9: a step declared with enabled = false is never invoked, never in
\* completed_steps, and never a node or a successor (by a linear edge or a
\* routing map) of the compiled graph
C9_DisabledExcluded ==
    \A d \in DisabledNames :
        /\ d \notin SeqRange(InvokedAgents)
        /\ d \notin SeqRange(state.completed_steps)
        /\ d \notin SeqRange(workflow.nodes)
        /\ d # workflow.entry
        /\ d # cursor
        /\ d \notin FunctionRange(workflow.edges)
        /\ \A n \in DOMAIN workflow.branches : d \notin FunctionRange(workflow.branches[n])

\* a run returned on a graph compiled from a list whose second of three
\* agents is disabled, with a conditional agent in the graph
C9_Witness ==
    /\ Len(agents) = 3
    /\ ~agents[2].enabled
    /\ pc = "returned"
    /\ Len(invoked) >= 2
    /\ DOMAIN workflow.branches # {}

\* no declared step is both enabled and resolvable in the registry
NoValidStep ==
    \A i \in 1..Len(agents) : ~(agents[i].enabled /\ Resolvable(agents[i].name))

\* C10: constructing the graph of a use case with no enabled and resolvable
\* step fails with a configuration error: no graph is produced and no step
\* executes
C10_NoValidStepFails ==
    (NoValidStep /\ pc # "configured") =>
        /\ pc = "config_error"
        /\ workflow = NoWorkflow
        /\ invoked = <<>>

\* construction failed for a list that holds a disabled resolvable step and
\* an enabled step whose name does not resolve
C10_Witness ==
    /\ pc = "config_error"
    /\ NoValidStep
    /\ \E i \in 1..Len(agents) : ~agents[i].enabled /\ Resolvable(agents[i].name)
    /\ \E i \in 1..Len(agents) : agents[i].enabled /\ ~Resolvable(agents[i].name)

(***************************************************************************)
(* The terminal marker and the routing of conditional steps.               *)
(***************************************************************************)
\* C11: every run that returns yields a state whose workflow_step is
\* "completed" or "error", also when the last executed step is the critique
\* routed to end
C11_TerminalMarker ==
    pc = "returned" => state.workflow_step \in {"completed", "error"}

\* C12: when a route_function reads a state whose error list is non-empty
\* or whose workflow_step is "completed", the run goes to the terminal and
\* no further step executes, whatever the routing map's targets are
C12_ErrorRoutesToTerminal ==
    \A i \in 1..Len(route_log) :
        (route_log[i].errors > 0 \/ route_log[i].workflow_step = "completed") =>
            /\ route_log[i].target = END
            /\ i = Len(route_log)
            /\ pc = "returned"

\* C13: a conditional step whose routing map lacks the label its
\* route_function returns routes to the terminal: the run returns, without
\* an exception and without invoking a further step
C13_MissingLabelRoutesToTerminal ==
    \A i \in 1..Len(route_log) :
        route_log[i].label \notin DOMAIN workflow.branches[route_log[i].agent] =>
            /\ route_log[i].target = END
            /\ i = Len(route_log)
            /\ pc = "returned"
            /\ exception = ""

\* the state of a route_function evaluation that no quality gate applies
\* to: the step is not the critique, no error, workflow not completed,
\* revision bound not reached
NoGateCase(r) ==
    /\ r.current_agent # "critique"
    /\ r.errors = 0
    /\ r.workflow_step # "completed"
    /\ r.revision_count < r.max_revisions

\* C14: for a conditional step to which no quality gate applies the next
\* step is the target of its routing map's "default" label, and the
\* terminal when the map has no "default" label
C14_DefaultTarget ==
    \A i \in 1..Len(route_log) :
        NoGateCase(route_log[i]) =>
            route_log[i].target =
                LET routing_map == workflow.branches[route_log[i].agent]
                IN  IF "default" \in DOMAIN routing_map
                    THEN routing_map["default"]
                    ELSE END

\* C15: a run that exceeds the maximum number of step invocations halts and
\* returns a state; it neither loops on nor raises
C15_StepLimitReturnsState ==
    [][(pc = "running" /\ supersteps >= RecursionLimit) =>
           (pc' = "returned" /\ exception' = "")]_vars

\* a gate evaluation that found revision_count at or above max_revisions
BoundReached(r) ==
    /\ r.current_agent = "critique"
    /\ r.revision_count >= r.max_revisions

\* C16: when revision_count has reached max_revisions at a gate evaluation
\* (max_revisions = 0 included) the gate routes to the "end" label whatever
\* the score, and this is no error: a run that ends there after a critique
\* without error returns with an empty error list and without the "error"
\* marker
C16_BoundReachedRoutesToEnd ==
    \A i \in 1..Len(route_log) :
        BoundReached(route_log[i]) =>
            /\ route_log[i].label = "end"
            /\ route_log[i].target =
                   ResolveTarget(workflow.branches[route_log[i].agent], "end")
            /\ (/\ i = Len(route_log)
                /\ route_log[i].errors = 0
                /\ route_log[i].target = END) =>
                   /\ pc = "returned"
                   /\ exception = ""
                   /\ state.errors = <<>>
                   /\ state.workflow_step # "error"

\* a run with max_revisions = 0 returned after the gate read a score below
\* the threshold and routed to end, with no error recorded
C16_Witness ==
    /\ pc = "returned"
    /\ state.errors = <<>>
    /\ route_log # <<>>
    /\ LET r == route_log[Len(route_log)]
       IN  /\ BoundReached(r)
           /\ r.max_revisions = 0
           /\ r.quality_score = 5
           /\ r.label = "end"

\* C20: the initial state of every run has revision_count = 0 and empty
\* completed_steps and errors, whatever parameters the caller passes to run
C20_InitialStateZeroed ==
    (pc = "running" /\ supersteps = 0) =>
        /\ state.revision_count = 0
        /\ state.completed_steps = <<>>
        /\ state.errors = <<>>
        /\ state.max_revisions \in MaxRevisionsArgs

(***************************************************************************)
(* The shape of the compiled graph.                                        *)
(***************************************************************************)
Compiled == pc \notin {"configured", "config_error"}

\* the positions of the declared steps that are enabled and resolvable
ValidPositions ==
    {i \in 1..Len(agents) : agents[i].enabled /\ Resolvable(agents[i].name)}

FirstValidStep ==
    agents[CHOOSE i \in ValidPositions : \A k \in ValidPositions : i <= k].name

\* C17: the entry point of a compiled pipeline is the first step in declared
\* order that is both enabled and resolvable; disabled steps and enabled
\* unresolvable steps declared before it are skipped
C17_EntryPoint ==
    Compiled =>
        /\ workflow.entry = FirstValidStep
        /\ (pc = "running" /\ invoked = <<>>) => cursor = FirstValidStep
        /\ invoked # <<>> => invoked[1].agent = FirstValidStep

\* a run whose first invoked step is the third declared one, after a
\* disabled resolvable step and an enabled unresolvable step
C17_Witness ==
    /\ Len(agents) = 3
    /\ ~agents[1].enabled /\ Resolvable(agents[1].name)
    /\ agents[2].enabled /\ ~Resolvable(agents[2].name)
    /\ invoked # <<>>
    /\ invoked[1].agent = agents[3].name

\* C18: the successor of every linear step of the compiled pipeline is the
\* next step of the pipeline in declared order, and the terminal only when
\* none remains, also when an enabled unresolvable step is declared between
\* two resolvable ones
C18_LinearSuccessor ==
    Compiled =>
        \A k \in 1..Len(workflow.nodes) :
            workflow.nodes[k] \in DOMAIN workflow.edges =>
                workflow.edges[workflow.nodes[k]] =
                    IF k < Len(workflow.nodes) THEN workflow.nodes[k + 1] ELSE END

\* the enabled resolvable conditional steps whose routing map has a target
\* that is neither END nor an enabled resolvable step
InvalidRoutingMaps ==
    {i \in ValidPositions :
        /\ agents[i].edge_type = "conditional"
        /\ \E l \in DOMAIN agents[i].routing_map :
               agents[i].routing_map[l] \notin
                   {agents[j].name : j \in ValidPositions} \cup {END}}

\* C19: a use case with a conditional step whose routing map names an
\* unknown or not-enabled step is rejected when the graph is constructed:
\* no graph is produced, no step runs, and no run fails on the map
C19_InvalidMapRejected ==
    (InvalidRoutingMaps # {} /\ pc # "configured") =>
        /\ pc = "config_error"
        /\ workflow = NoWorkflow
        /\ invoked = <<>>
        /\ exception = ""

\* construction failed for a list whose conditional step routes to a
\* declared but disabled step, although other steps are valid
C19_Witness ==
    /\ pc = "config_error"
    /\ Cardinality(ValidPositions) >= 2
    /\ \E i \in InvalidRoutingMaps, j \in 1..Len(agents) :
           /\ ~agents[j].enabled
           /\ \E l \in DOMAIN agents[i].routing_map :
                  agents[i].routing_map[l] = agents[j].name

(***************************************************************************)
(* The bookkeeping fields of the state.                                    *)
(***************************************************************************)
\* C21: completed_steps is an append-only execution trace: every execution
\* of a step appends the step's name, so while a run goes on or has returned
\* completed_steps lists the executed steps in order, a step re-run in a
\* revise loop once per execution
C21_CompletedStepsTrace ==
    pc \in {"running", "returned"} => state.completed_steps = InvokedAgents

(***************************************************************************)
(* Concurrent requests.  Every request constructs its own DynamicGraph and *)
(* its own initial state; the step functions share the module-level        *)
(* _checkpointer of agent_nodes.py, which keeps the conversation of every   *)
(* React agent under the thread id "<agent>_<int(time.time())>".            *)
(***************************************************************************)
RunIds == 1..MaxConcurrentRuns

\* the use case of the concurrent requests
ConcurrentUseCase ==
    <<LinearDecl("planner"), LinearDecl("writer"), LinearDecl("image_generator")>>

\* the step functions that invoke a React agent made by
\* create_react_agent_for_task, which passes checkpointer=_checkpointer
UsesCheckpointer(agent_name) ==
    AgentFunction(agent_name).agent \in
        {"planner", "writer", "critique", "poetry_agent", "music_agent", "formatter"}

\* config = {"configurable": {"thread_id": f"planner_{int(time.time())}"}}
thread_id(agent_name, second) ==
    [prefix |-> AgentFunction(agent_name).agent, second |-> second]

\* a request whose run has not started.  answered_for is the set of
\* requests whose user messages were in the conversation this run's React
\* agents answered: the content fields of the record (story_plan,
\* story_content) are made from those answers
PendingRun ==
    [status |-> "pending", state |-> NoState, cursor |-> END, answered_for |-> {}]

InitConcurrent ==
    /\ agents = ConcurrentUseCase
    /\ pc = "compiled"
    /\ workflow = _build_workflow(get_enabled_agents(ConcurrentUseCase))
    /\ state = NoState
    /\ cursor = END
    /\ supersteps = 0
    /\ exception = ""
    /\ invoked = <<>>
    /\ route_log = <<>>
    /\ runs = [r \in RunIds |-> PendingRun]
    /\ clock = 0
    /\ checkpointer = {}
    /\ story_status_storage = NoStories
    /\ last_response = NoResponse

\* DynamicGraph.run of request r: its own initial state
ConcurrentRun(r) ==
    /\ runs[r].status = "pending"
    /\ runs' = [runs EXCEPT ![r] =
                    [status |-> "running",
                     state |-> create_initial_state(DefaultMaxRevisions, NoKwargs),
                     cursor |-> workflow.entry,
                     answered_for |-> {}]]
    /\ UNCHANGED <<engine_vars, clock, checkpointer, api_vars>>

\* one superstep of request r: the step function adds its user message to
\* the thread of this agent and this second and the React agent answers the
\* whole thread; the result is written to r's own channels
ConcurrentStep(r) ==
    /\ runs[r].status = "running"
    /\ LET agent_name == runs[r].cursor
           thread == thread_id(agent_name, clock)
           messages == {m.run : m \in {c \in checkpointer : c.thread = thread}} \cup {r}
           written == ApplyWrites(runs[r].state,
                                  wrapped_agent(runs[r].state, agent_name, "ok", None))
           target == Successor(workflow, agent_name, written)
       IN  /\ checkpointer' =
                 IF UsesCheckpointer(agent_name)
                 THEN checkpointer \cup {[thread |-> thread, run |-> r]}
                 ELSE checkpointer
           /\ runs' = [runs EXCEPT ![r] =
                           [status |-> IF target = END THEN "returned" ELSE "running",
                            state |-> written,
                            cursor |-> target,
                            answered_for |->
                                IF UsesCheckpointer(agent_name)
                                THEN runs[r].answered_for \cup messages
                                ELSE runs[r].answered_for]]
    /\ UNCHANGED <<engine_vars, clock, api_vars>>

\* the wall clock passes a second boundary
Tick ==
    /\ clock < MaxClock
    /\ clock' = clock + 1
    /\ UNCHANGED <<engine_vars, runs, checkpointer, api_vars>>

NextConcurrent ==
    \/ \E r \in RunIds : ConcurrentRun(r)
    \/ \E r \in RunIds : ConcurrentStep(r)
    \/ Tick

SpecConcurrent == InitConcurrent /\ [][NextConcurrent]_vars

\* the state a run of the workflow reaches from st at node when it runs
\* alone and every step succeeds
RECURSIVE FinalStateAlone(_, _)
FinalStateAlone(st, node) ==
    IF node = END THEN st
    ELSE LET written == ApplyWrites(st, wrapped_agent(st, node, "ok", None))
         IN  FinalStateAlone(written, Successor(workflow, node, written))

\* C23: concurrent runs each own their record: under every interleaving no
\* step of a run reads what belongs to another run, and the record a run
\* returns is the one it returns when it runs alone
C23_RunsIsolated ==
    \A r \in DOMAIN runs :
        /\ runs[r].answered_for \subseteq {r}
        /\ runs[r].status = "returned" =>
               /\ runs[r].answered_for = {r}
               /\ runs[r].state =
                      FinalStateAlone(create_initial_state(DefaultMaxRevisions, NoKwargs),
                                      workflow.entry)

(***************************************************************************)
(* The HTTP layer: POST /generate-story-raw of fastapi_app.py.             *)
(***************************************************************************)
\* the status codes generate_story can answer with once run_workflow has
\* ended: HTTPException(400) for a ValueError, HTTPException(500) for any
\* other exception, WorkflowResponse(status="success") with code 200 for a
\* returned state.  A configuration error is a ValueError, the KeyError of
\* a path map and GraphRecursionError are not, and the exception of a step
\* may be of either kind
generate_story ==
    CASE pc = "config_error" -> {400}
      [] pc = "raised" -> IF exception = "StepError" THEN {400, 500} ELSE {500}
      [] pc = "returned" -> {200}
      [] OTHER -> {}

\* C24: a configuration error of the requested use case is answered with a
\* 4xx status, and a run whose returned state holds a recorded error with a
\* 5xx status, never with a success response
C24_HttpStatus ==
    /\ pc = "config_error" =>
           \A status_code \in generate_story :
               status_code >= 400 /\ status_code < 500
    /\ (pc = "returned" /\ state.errors # <<>>) =>
           \A status_code \in generate_story : status_code >= 500

(***************************************************************************)
(* The route functions.                                                    *)
(***************************************************************************)
\* the fields of the state a route_function read, from its record
RecordedState(r) ==
    [current_agent |-> r.current_agent,
     quality_score |-> r.quality_score,
     revision_count |-> r.revision_count,
     max_revisions |-> r.max_revisions,
     workflow_step |-> r.workflow_step,
     errors |-> IF r.errors = 0 THEN <<>> ELSE <<"error">>]

\* C25: the route_function of every conditional step consults that step's
\* own routing map: the label it returns is the one its own map gives, also
\* when other conditional steps have other maps
C25_OwnRoutingMap ==
    \A i \in 1..Len(route_log) :
        route_log[i].label =
            _route_conditional_agent(RecordedState(route_log[i]),
                                     workflow.branches[route_log[i].agent])

\* use cases in which a conditional step that is not the critique runs
\* after the critique has scored, next to the revise loop
GateUseCases ==
    {<<LinearDecl("critique"),
       [name |-> "writer", enabled |-> TRUE, edge_type |-> "conditional",
        routing_map |-> ReviseMap]>>,
     <<LinearDecl("writer"),
       [name |-> "critique", enabled |-> TRUE, edge_type |-> "conditional",
        routing_map |-> ReviseMap]>>}

InitGate ==
    /\ agents \in GateUseCases
    /\ pc = "configured"
    /\ workflow = NoWorkflow
    /\ state = NoState
    /\ cursor = END
    /\ supersteps = 0
    /\ exception = ""
    /\ invoked = <<>>
    /\ route_log = <<>>
    /\ runs = <<>>
    /\ clock = 0
    /\ checkpointer = {}
    /\ story_status_storage = NoStories
    /\ last_response = NoResponse

SpecGate == InitGate /\ [][Next]_vars

\* the label of the default rule of line 267, with the routing map the
\* route functions read
DefaultLabel ==
    IF "default" \in DOMAIN workflow.routing_map
    THEN workflow.routing_map["default"]
    ELSE "end"

\* C26: the quality gate is applied exactly when current_agent is
\* "critique" at decision time: a route_function that finds another
\* current_agent returns the label of the default rule, also when
\* quality_score is below 7 and revision_count below max_revisions, and one
\* that finds "critique" returns "revise" or "end" by the gate
C26_GateKeyedOnCurrentAgent ==
    \A i \in 1..Len(route_log) :
        LET r == route_log[i]
            st == RecordedState(r)
        IN  should_continue_workflow(st) =>
                r.label = IF r.current_agent = "critique"
                          THEN IF NeedsRevision(st) THEN "revise" ELSE "end"
                          ELSE DefaultLabel

\* the route_function of the conditional step writer found current_agent
\* "writer", a score of 5, revisions left and no error, and did not route
\* to revise
C26_Witness ==
    \E i \in 1..Len(route_log) :
        /\ route_log[i].agent = "writer"
        /\ route_log[i].current_agent = "writer"
        /\ route_log[i].quality_score = 5
        /\ route_log[i].revision_count < route_log[i].max_revisions
        /\ route_log[i].errors = 0
        /\ route_log[i].label = "end"

(***************************************************************************)
(* The error list and the revision counter.                                *)
(***************************************************************************)
\* the step executions of the run that recorded an error
RecordedFailures ==
    {i \in 1..Len(invoked) : invoked[i].outcome \in {"error", "save_error"}}

\* C27: the error list holds each recorded failure exactly once: a run in
\* which k step executions each recorded one error returns an errors list
\* of length k
C27_ErrorsOnce ==
    pc = "returned" => Len(state.errors) = Cardinality(RecordedFailures)

\* C28: in every state of every run 0 <= revision_count <= max_revisions
C28_RevisionCountInBounds ==
    InRun =>
        /\ 0 <= state.revision_count
        /\ state.revision_count <= state.max_revisions

\* C29: when quality_score is None at an evaluation of the quality gate the
\* gate routes to end and never to revise, whatever revision_count and
\* max_revisions are
C29_NoScoreRoutesToEnd ==
    \A i \in 1..Len(route_log) :
        (/\ route_log[i].current_agent = "critique"
         /\ route_log[i].quality_score = None) =>
            /\ route_log[i].label = "end"
            /\ route_log[i].target =
                   ResolveTarget(workflow.branches[route_log[i].agent], "end")

\* the gate read the score None after a critique that recorded no error,
\* with revisions left, and routed to end
C29_Witness ==
    \E i \in 1..Len(route_log) :
        /\ route_log[i].current_agent = "critique"
        /\ route_log[i].workflow_step = "critique_complete"
        /\ route_log[i].quality_score = None
        /\ route_log[i].revision_count < route_log[i].max_revisions
        /\ route_log[i].errors = 0
        /\ route_log[i].label = "end"

(***************************************************************************)
(* The background story API of api.py: POST /api/v1/stories/generate       *)
(* stores an entry and schedules generate_story_background; GET            *)
(* /api/v1/stories/{story_id} reads the entry.                             *)
(***************************************************************************)
StoryIds == 1..MaxStories

\* what orchestrator.generate_story can do: return a result with success
\* true or false, return a dict without the "success" key (result["success"]
\* raises KeyError), or raise
OrchestratorResults == {"success", "no_success", "no_success_key", "raise"}

\* generate_story: a fresh uuid4 and its "pending" entry
GenerateStory(story_id) ==
    /\ story_id \notin DOMAIN story_status_storage
    /\ story_status_storage' =
           [id \in DOMAIN story_status_storage \cup {story_id} |->
               IF id = story_id
               THEN [status |-> "pending", story |-> "", success |-> FALSE]
               ELSE story_status_storage[id]]
    /\ UNCHANGED <<engine_vars, concurrent_vars, last_response>>

\* generate_story_background up to its await (lines 314-315)
BackgroundStart(story_id) ==
    /\ story_id \in DOMAIN story_status_storage
    /\ story_status_storage[story_id].status = "pending"
    /\ story_status_storage' =
           [story_status_storage EXCEPT ![story_id].status = "in_progress"]
    /\ UNCHANGED <<engine_vars, concurrent_vars, last_response>>

\* generate_story_background after the await: the update of lines 326-335,
\* or the update of the except clause (lines 339-345)
BackgroundFinish(story_id, result) ==
    /\ story_id \in DOMAIN story_status_storage
    /\ story_status_storage[story_id].status = "in_progress"
    /\ story_status_storage' =
           [story_status_storage EXCEPT ![story_id] =
               IF result \in {"success", "no_success"}
               THEN [status |-> "completed", story |-> "story",
                     success |-> (result = "success")]
               ELSE [status |-> "failed", story |-> "", success |-> FALSE]]
    /\ UNCHANGED <<engine_vars, concurrent_vars, last_response>>

\* mutant: every finished story is returned, a failed one included
get_story_AnyFinished(story_id) ==
    IF story_id \notin DOMAIN story_status_storage
    THEN [story_id |-> story_id, status_code |-> 404, story |-> "", success |-> FALSE]
    ELSE IF story_status_storage[story_id].status \notin {"completed", "failed"}
    THEN [story_id |-> story_id, status_code |-> 202, story |-> "", success |-> FALSE]
    ELSE [story_id |-> story_id, status_code |-> 200,
          story |-> story_status_storage[story_id].story,
          success |-> story_status_storage[story_id].success]

\* get_story: 404 for an unknown id, HTTPException(202, "Story generation in
\* progress") unless the status is "completed", else the stored result
get_story(story_id) ==
    IF story_id \notin DOMAIN story_status_storage
    THEN [story_id |-> story_id, status_code |-> 404, story |-> "", success |-> FALSE]
    ELSE IF story_status_storage[story_id].status # "completed"
    THEN [story_id |-> story_id, status_code |-> 202, story |-> "", success |-> FALSE]
    ELSE [story_id |-> story_id, status_code |-> 200,
          story |-> story_status_storage[story_id].story,
          success |-> story_status_storage[story_id].success]

\* GET /api/v1/stories/{story_id}
GetStory(story_id) ==
    /\ last_response' = get_story(story_id)
    /\ UNCHANGED <<engine_vars, concurrent_vars, story_status_storage>>

InitStoryApi ==
    /\ agents = <<>>
    /\ pc = "configured"
    /\ workflow = NoWorkflow
    /\ state = NoState
    /\ cursor = END
    /\ supersteps = 0
    /\ exception = ""
    /\ invoked = <<>>
    /\ route_log = <<>>
    /\ runs = <<>>
    /\ clock = 0
    /\ checkpointer = {}
    /\ story_status_storage = NoStories
    /\ last_response = NoResponse

NextStoryApi ==
    \/ \E story_id \in StoryIds : GenerateStory(story_id)
    \/ \E story_id \in StoryIds : BackgroundStart(story_id)
    \/ \E story_id \in StoryIds, result \in OrchestratorResults :
           BackgroundFinish(story_id, result)
    \/ \E story_id \in StoryIds : GetStory(story_id)

SpecStoryApi == InitStoryApi /\ [][NextStoryApi]_vars

\* the steps a story's status may take
StatusSteps ==
    {<<"pending", "in_progress">>, <<"in_progress", "completed">>,
     <<"in_progress", "failed">>}

\* C30: a story's status only moves forward along pending -> in_progress ->
\* completed or failed, an entry that is completed or failed never changes
\* again, and GET of a story answers with the stored result only when the
\* status is completed: a pending, in_progress or failed story is answered
\* as still in progress
C30_StoryStatusForward ==
    [][/\ \A story_id \in DOMAIN story_status_storage :
            /\ story_id \in DOMAIN story_status_storage'
            /\ \/ story_status_storage'[story_id] = story_status_storage[story_id]
               \/ <<story_status_storage[story_id].status,
                     story_status_storage'[story_id].status>> \in StatusSteps
            /\ story_status_storage[story_id].status \in {"completed", "failed"} =>
                   story_status_storage'[story_id] = story_status_storage[story_id]
       /\ last_response' # last_response =>
            LET story_id == last_response'.story_id
            IN  IF story_id \notin DOMAIN story_status_storage
                THEN last_response'.status_code = 404
                ELSE IF story_status_storage[story_id].status = "completed"
                THEN /\ last_response'.status_code = 200
                     /\ last_response'.story = story_status_storage[story_id].story
                     /\ last_response'.success = story_status_storage[story_id].success
                ELSE /\ last_response'.status_code = 202
                     /\ last_response'.story = ""
      ]_vars

\* one story is completed and GET answered it with its stored result while
\* another story has failed
C30_Witness ==
    /\ last_response.status_code = 200
    /\ last_response.story_id \in DOMAIN story_status_storage
    /\ story_status_storage[last_response.story_id].status = "completed"
    /\ last_response.story = story_status_storage[last_response.story_id].story
    /\ \E story_id \in DOMAIN story_status_storage :
           story_status_storage[story_id].status = "failed"

====
